---- MODULE Spec2Model ----
(***************************************************************************)
(* Model of src/common.rs of graphql-parser: the literal decoders          *)
(* (unquote_string, unquote_block_string), the numeric literal parse and   *)
(* the grammar productions (plain_value, value, default_value, parse_type, *)
(* arguments, directives) built from combine's combinators.                *)
(*                                                                         *)
(* Text is modelled as a sequence of Unicode code points; str::len() and   *)
(* str slicing are in UTF-8 bytes, as in Rust.                             *)
(***************************************************************************)
EXTENDS Integers, Sequences, FiniteSets, TLC

VARIABLES
    src,     \* the raw lexical slice handed to a literal decoder
    out,     \* the decoder's result, or NoOut before the call
    tokens,  \* the token sequence behind the TokenStream
    off,     \* the TokenStream's cursor: index of the next token (0-based)
    last     \* the last entry-production call, or NoCall

vars == <<src, out, tokens, off, last>>

(***************************************************************************)
(* Bounds of the model.                                                    *)
(***************************************************************************)
MaxItems == 3
MaxHexLen == 4
MaxLines == 3
MaxIndent == 2
MaxTokens == 4
MaxShort == 2
MaxTypeTokens == 6
MaxPairs == 3

(***************************************************************************)
(* Characters named by the source.                                         *)
(***************************************************************************)
QUOTE == 34
BACKSLASH == 92
SLASH == 47
NEWLINE == 10
CARRIAGE == 13
TAB == 9
FORMFEED == 12
SPACE == 32
NBSP == 160

Min(a, b) == IF a < b THEN a ELSE b

RECURSIVE Concat(_)
Concat(ss) == IF ss = <<>> THEN <<>> ELSE Head(ss) \o Concat(Tail(ss))

RECURSIVE SeqsUpTo(_, _)
\* all sequences over S of length at most n
SeqsUpTo(S, n) ==
    IF n = 0 THEN {<<>>}
    ELSE LET shorter == SeqsUpTo(S, n - 1)
         IN  shorter \cup {Append(s, x) : s \in shorter, x \in S}

IsPrefix(p, s) == Len(p) <= Len(s) /\ SubSeq(s, 1, Len(p)) = p

(***************************************************************************)
(* Rust's str and char primitives used by the decoders.                    *)
(***************************************************************************)
\* char::len_utf8
Utf8Len(c) == IF c < 128 THEN 1 ELSE IF c < 2048 THEN 2 ELSE IF c < 65536 THEN 3 ELSE 4

RECURSIVE ByteLen(_)
\* str::len: the length in bytes
ByteLen(s) == IF s = <<>> THEN 0 ELSE Utf8Len(Head(s)) + ByteLen(Tail(s))

\* char::is_whitespace: the Unicode White_Space property
IsWhitespace(c) ==
    \/ c \in 9..13
    \/ c \in {32, 133, 160, 5760, 8232, 8233, 8239, 8287, 12288}
    \/ c \in 8192..8202

RECURSIVE TrimStart(_)
TrimStart(s) ==
    IF s # <<>> /\ IsWhitespace(Head(s)) THEN TrimStart(Tail(s)) ELSE s

RECURSIVE TrimEnd(_)
TrimEnd(s) ==
    IF s # <<>> /\ IsWhitespace(s[Len(s)]) THEN TrimEnd(SubSeq(s, 1, Len(s) - 1)) ELSE s

Trim(s) == TrimEnd(TrimStart(s))

RECURSIVE SplitLines(_, _)
\* str::lines: split at every '\n'; a line that ended with "\r\n" loses the '\r'
\* too; the empty remainder after a final '\n' is no line.  cur is the line
\* being collected.
SplitLines(s, cur) ==
    IF s = <<>> THEN (IF cur = <<>> THEN <<>> ELSE <<cur>>)
    ELSE IF Head(s) = NEWLINE
         THEN LET line == IF cur # <<>> /\ cur[Len(cur)] = CARRIAGE
                          THEN SubSeq(cur, 1, Len(cur) - 1) ELSE cur
              IN  <<line>> \o SplitLines(Tail(s), <<>>)
         ELSE SplitLines(Tail(s), Append(cur, Head(s)))

Lines(s) == SplitLines(s, <<>>)

RECURSIVE CharsInBytes(_, _)
\* the number of leading characters of s that fill exactly n bytes, or -1 when
\* byte offset n is not a character boundary of s (or lies beyond its end)
CharsInBytes(s, n) ==
    IF n = 0 THEN 0
    ELSE IF s = <<>> \/ Utf8Len(Head(s)) > n THEN -1
    ELSE LET k == CharsInBytes(Tail(s), n - Utf8Len(Head(s)))
         IN  IF k < 0 THEN -1 ELSE k + 1

IsCharBoundary(s, n) == CharsInBytes(s, n) >= 0

\* &s[n..] for a byte offset n that is a character boundary
ByteSliceFrom(s, n) == SubSeq(s, CharsInBytes(s, n) + 1, Len(s))

\* String::truncate(n)
ByteTruncate(s, n) == SubSeq(s, 1, CharsInBytes(s, n))

RECURSIVE Replace(_, _, _)
\* str::replace: every non-overlapping match of pat, left to right
Replace(s, pat, rep) ==
    IF s = <<>> THEN <<>>
    ELSE IF IsPrefix(pat, s)
         THEN rep \o Replace(SubSeq(s, Len(pat) + 1, Len(s)), pat, rep)
         ELSE <<Head(s)>> \o Replace(Tail(s), pat, rep)

(***************************************************************************)
(* Results of the literal decoders: Ok(String), Err(message), or a panic.  *)
(***************************************************************************)
NoOut == [st |-> "None", val |-> <<>>, msg |-> ""]
Ok(s) == [st |-> "Ok", val |-> s, msg |-> ""]
Err(m, s) == [st |-> "Err", val |-> s, msg |-> m]
Panic(m) == [st |-> "Panic", val |-> <<>>, msg |-> m]

(***************************************************************************)
(* unquote_block_string                                                    *)
(***************************************************************************)
TRIPLE == <<QUOTE, QUOTE, QUOTE>>
ESCAPED_TRIPLE == <<BACKSLASH, QUOTE, QUOTE, QUOTE>>

\* src[3..src.len() - 3]
BlockInterior(s) == SubSeq(s, 4, Len(s) - 3)

\* the filter_map closure: the indentation of a line in bytes, or -1 for a
\* whitespace-only line
LineIndent(line) ==
    LET trimmed == ByteLen(TrimStart(line))
    IN  IF trimmed > 0 THEN ByteLen(line) - trimmed ELSE -1

RECURSIVE MinIndent(_)
\* .min() over the lines that are not whitespace-only; -1 when there is none
MinIndent(ls) ==
    IF ls = <<>> THEN -1
    ELSE LET i == LineIndent(Head(ls))
             r == MinIndent(Tail(ls))
         IN  IF i < 0 THEN r ELSE IF r < 0 THEN i ELSE Min(i, r)

\* lines().skip(1).filter_map(..).min().unwrap_or(0)
BlockIndent(interior) ==
    LET ls == Lines(interior)
        m == IF ls = <<>> THEN -1 ELSE MinIndent(Tail(ls))
    IN  IF m < 0 THEN 0 ELSE m

\* the first line: pushed trimmed, with a newline, when not empty
BlockFirst(ls) ==
    IF ls = <<>> THEN <<>>
    ELSE LET stripped == Trim(Head(ls))
         IN  IF stripped # <<>> THEN Append(stripped, NEWLINE) ELSE <<>>

RECURSIVE BlockLoop(_, _, _)
\* the for loop over the remaining lines. st = [result, last_line, panicked]
BlockLoop(ls, indent, st) ==
    IF ls = <<>> \/ st.panicked THEN st
    ELSE LET line == Head(ls)
             at == ByteLen(st.result)
         IN  IF ByteLen(line) > indent
             THEN IF ~IsCharBoundary(line, indent)
                  THEN [st EXCEPT !.panicked = TRUE]
                  ELSE BlockLoop(Tail(ls), indent,
                         [result |-> st.result
                                     \o Replace(ByteSliceFrom(line, indent), ESCAPED_TRIPLE, TRIPLE)
                                     \o <<NEWLINE>>,
                          last_line |-> at, panicked |-> FALSE])
             ELSE BlockLoop(Tail(ls), indent,
                         [result |-> Append(st.result, NEWLINE),
                          last_line |-> at, panicked |-> FALSE])

\* the final truncate: drop what the last line pushed when it is blank
BlockTruncate(st) ==
    IF Trim(ByteSliceFrom(st.result, st.last_line)) = <<>>
    THEN ByteTruncate(st.result, st.last_line)
    ELSE st.result

unquote_block_string(s) ==
    LET interior == BlockInterior(s)
        ls == Lines(interior)
        indent == BlockIndent(interior)
        st == BlockLoop(IF ls = <<>> THEN <<>> ELSE Tail(ls), indent,
                        [result |-> BlockFirst(ls), last_line |-> 0, panicked |-> FALSE])
    IN  IF st.panicked THEN Panic("byte index is not a char boundary")
        ELSE Ok(BlockTruncate(st))
(***************************************************************************)
(* unquote_string                                                          *)
(***************************************************************************)
\* char::to_digit(16), or -1
HexDigit(c) ==
    IF c \in 48..57 THEN c - 48
    ELSE IF c \in 97..102 THEN c - 87
    ELSE IF c \in 65..70 THEN c - 55
    ELSE -1

RECURSIVE HexAccum(_, _)
HexAccum(ds, acc) ==
    IF ds = <<>> THEN acc
    ELSE IF HexDigit(Head(ds)) < 0 THEN -1
    ELSE HexAccum(Tail(ds), acc * 16 + HexDigit(Head(ds)))

\* u32::from_str_radix(s, 16), or -1 for Err: an unsigned parse takes a leading
\* '+' (43) and no '-'; the empty string and a lone sign are errors.  At most
\* four characters are ever passed, so the u32 cannot overflow.
FromStrRadix16(s) ==
    IF s = <<>> THEN -1
    ELSE IF Len(s) = 1 /\ Head(s) \in {43, 45} THEN -1
    ELSE IF Head(s) = 43 THEN HexAccum(Tail(s), 0)
    ELSE HexAccum(s, 0)

\* std::char::from_u32(n).is_some(): n is a Unicode scalar value
IsScalar(n) == n >= 0 /\ n <= 1114111 /\ ~(n \in 55296..57343)

\* the single-character arms of the inner match: the character pushed for the
\* escape letter e, or -1 when e has no such arm
SimpleEscape(e) ==
    IF e \in {QUOTE, BACKSLASH, SLASH} THEN e
    ELSE IF e = 98 THEN 16
    ELSE IF e = 102 THEN FORMFEED
    ELSE IF e = 110 THEN NEWLINE
    ELSE IF e = 114 THEN CARRIAGE
    ELSE IF e = 116 THEN TAB
    ELSE -1

RECURSIVE UnquoteLoop(_, _)
\* the while-let loop over the interior's characters; res is the output so far
UnquoteLoop(chars, res) ==
    IF chars = <<>> THEN Ok(res)
    ELSE LET c == Head(chars) IN
         IF c # BACKSLASH THEN UnquoteLoop(Tail(chars), Append(res, c))
         ELSE IF Len(chars) = 1 THEN Panic("slash cant be at the end")
         ELSE LET e == chars[2]
                  rest == SubSeq(chars, 3, Len(chars))
              IN  IF SimpleEscape(e) >= 0
                  THEN UnquoteLoop(rest, Append(res, SimpleEscape(e)))
                  ELSE IF e = 117
                  THEN IF Len(rest) < 4
                       THEN Err("\\u must have 4 characters after it", rest)
                       ELSE LET temp_code_point == SubSeq(rest, 1, 4)
                                n == FromStrRadix16(temp_code_point)
                            IN  IF n >= 0 /\ IsScalar(n)
                                THEN UnquoteLoop(SubSeq(rest, 5, Len(rest)), Append(res, n))
                                ELSE Err("is not a valid unicode code point", temp_code_point)
                  ELSE Err("bad escaped char", <<e>>)

unquote_string(s) == UnquoteLoop(SubSeq(s, 2, Len(s) - 1), <<>>)

(***************************************************************************)
(* Inputs of the literal decoders.                                         *)
(***************************************************************************)
\* pieces of a quoted string's interior: plain characters, the simple escapes,
\* an unrecognised escape, and some \u escapes
PlainChars == {<<120>>, <<SPACE>>}
SimpleEscapes == {<<BACKSLASH, e>> : e \in {QUOTE, BACKSLASH, SLASH, 98, 102, 110, 114, 116}}
OtherItems == {<<BACKSLASH, 120>>, <<BACKSLASH, 117, 48, 48, 52, 49>>,
               <<BACKSLASH, 117, 68, 56, 48, 48>>}
StringItems == PlainChars \cup SimpleEscapes \cup OtherItems

\* characters tried after \u: 0 4 F D + g
HexAlphabet == {48, 52, 70, 68, 43, 103}

StringInteriors ==
    {Concat(items) : items \in SeqsUpTo(StringItems, MaxItems)}
    \cup {<<BACKSLASH, 117>> \o h : h \in SeqsUpTo(HexAlphabet, MaxHexLen)}
    \cup {<<BACKSLASH, 117>> \o h \o <<120>> : h \in SeqsUpTo(HexAlphabet, MaxHexLen)}

StringSources == {<<QUOTE>> \o i \o <<QUOTE>> : i \in StringInteriors}

\* the lines of a block string: an indentation of spaces, or one no-break
\* space, then nothing, a letter, or an escaped triple quote
Indents == {[i \in 1..n |-> SPACE] : n \in 0..MaxIndent} \cup {<<NBSP>>}
Bodies == {<<>>, <<120>>, ESCAPED_TRIPLE}
BlockLines == {i \o b : i \in Indents, b \in Bodies}

RECURSIVE JoinLines(_)
JoinLines(ls) ==
    IF ls = <<>> THEN <<>>
    ELSE IF Len(ls) = 1 THEN Head(ls)
    ELSE Head(ls) \o <<NEWLINE>> \o JoinLines(Tail(ls))

\* the interior of the block string example: "\n    Hello,\n      World!\n    \n"
HelloInterior ==
    <<NEWLINE, 32, 32, 32, 32, 72, 101, 108, 108, 111, 44,
      NEWLINE, 32, 32, 32, 32, 32, 32, 87, 111, 114, 108, 100, 33,
      NEWLINE, 32, 32, 32, 32, NEWLINE>>
HelloResult ==
    <<72, 101, 108, 108, 111, 44, NEWLINE, 32, 32, 87, 111, 114, 108, 100, 33, NEWLINE>>

BlockInteriors ==
    {JoinLines(ls) : ls \in SeqsUpTo(BlockLines, MaxLines)} \cup {HelloInterior}

BlockSources == {TRIPLE \o i \o TRIPLE : i \in BlockInteriors}

(***************************************************************************)
(* The decoders as operations.                                             *)
(***************************************************************************)
NoCall == [entry |-> "none", before |-> 0, tag |-> "none", val |-> <<>>, tried |-> <<>>]

Call_unquote_string ==
    /\ out = NoOut
    /\ out' = unquote_string(src)
    /\ UNCHANGED <<src, tokens, off, last>>

Call_unquote_block_string ==
    /\ out = NoOut
    /\ out' = unquote_block_string(src)
    /\ UNCHANGED <<src, tokens, off, last>>

InitUnquote ==
    /\ src \in StringSources
    /\ out = NoOut
    /\ tokens = <<>> /\ off = 0 /\ last = NoCall

InitBlock ==
    /\ src \in BlockSources
    /\ out = NoOut
    /\ tokens = <<>> /\ off = 0 /\ last = NoCall

SpecUnquote == InitUnquote /\ [][Call_unquote_string]_vars
SpecBlock == InitBlock /\ [][Call_unquote_block_string]_vars
(***************************************************************************)
(* The token stream (tokenizer.rs) and the token matchers (helpers.rs).    *)
(* A token is [kind, value]; the cursor `off` counts the tokens consumed,       *)
(* and the position the stream reports is that of the token at the cursor. *)
(***************************************************************************)
Punct(c) == [kind |-> "Punctuator", value |-> <<c>>]
NameTok(s) == [kind |-> "Name", value |-> s]
IntTok(s) == [kind |-> "IntValue", value |-> s]
FloatTok(s) == [kind |-> "FloatValue", value |-> s]
BigIntTok(s) == [kind |-> "BigIntValue", value |-> s]
StringTok(s) == [kind |-> "StringValue", value |-> s]
BlockTok(s) == [kind |-> "BlockString", value |-> s]

DOLLAR == 36
LBRACKET == 91
RBRACKET == 93
LBRACE == 123
RBRACE == 125
COLON == 58
LPAREN == 40
RPAREN == 41
AT == 64
BANG == 33

\* "true", "false", "null"
TRUE_TEXT == <<116, 114, 117, 101>>
FALSE_TEXT == <<102, 97, 108, 115, 101>>
NULL_TEXT == <<110, 117, 108, 108>>

(***************************************************************************)
(* combine's parse results.  tag is one of ConsumedOk, EmptyOk,            *)
(* ConsumedErr, EmptyErr; off is where the stream is left.  An EmptyErr    *)
(* result carries the offset the attempt started at: every combinator that *)
(* goes on after an EmptyErr (choice, many, optional, a sequence) and      *)
(* parse_stream itself reset the stream to the checkpoint taken before the *)
(* attempt.  A ConsumedErr is committed: nothing resets the stream.             *)
(* tried lists the alternatives of the production's ordered choice that    *)
(* were attempted, each with the offset it started at.                     *)
(***************************************************************************)
Unexpected == [t |-> "Unexpected", v |-> <<>>]
DecodeError == [t |-> "Decode", v |-> <<>>]

ConsumedOk(v, o) == [tag |-> "ConsumedOk", val |-> v, off |-> o, tried |-> <<>>]
EmptyOk(v, o) == [tag |-> "EmptyOk", val |-> v, off |-> o, tried |-> <<>>]
ConsumedErr(e, o) == [tag |-> "ConsumedErr", val |-> e, off |-> o, tried |-> <<>>]
EmptyErr(o) == [tag |-> "EmptyErr", val |-> Unexpected, off |-> o, tried |-> <<>>]

IsOk(r) == r.tag \in {"ConsumedOk", "EmptyOk"}
IsErr(r) == r.tag \in {"ConsumedErr", "EmptyErr"}

\* a sequence fails at offset o after an earlier part consumed input: the tuple
\* parser resets to o, takes the token there (if any) to report it as
\* unexpected, and returns ConsumedErr
Committed(toks, o) == ConsumedErr(Unexpected, IF o < Len(toks) THEN o + 1 ELSE o)

\* the result of a sequence's later part r2 once an earlier part consumed input
AfterConsumed(toks, r2, o) ==
    IF r2.tag = "EmptyErr" THEN Committed(toks, o)
    ELSE IF r2.tag = "EmptyOk" THEN ConsumedOk(r2.val, r2.off)
    ELSE [r2 EXCEPT !.tried = <<>>]

\* kind(k): the next token when it is of kind k
Kind(toks, o, k) ==
    IF o < Len(toks) /\ toks[o + 1].kind = k THEN ConsumedOk(toks[o + 1], o + 1)
    ELSE EmptyErr(o)

\* punct(v) and ident(v): the next token when it has kind k and text v
TokenValue(toks, o, k, v) ==
    IF o < Len(toks) /\ toks[o + 1].kind = k /\ toks[o + 1].value = v
    THEN ConsumedOk(toks[o + 1], o + 1)
    ELSE EmptyErr(o)

punct(toks, o, c) == TokenValue(toks, o, "Punctuator", <<c>>)
ident(toks, o, v) == TokenValue(toks, o, "Name", v)

\* name(): the text of the next token when it is a Name
name(toks, o) ==
    LET r == Kind(toks, o, "Name")
    IN  IF IsOk(r) THEN [r EXCEPT !.val = r.val.value] ELSE r

\* one alternative of an ordered choice, labelled
Alt(label, o, r) == [r EXCEPT !.tried = <<[alt |-> label, at |-> o]>>]

OrBacktracking(r1, r2) ==
    IF IsErr(r1) THEN [r2 EXCEPT !.tried = r1.tried \o r2.tried] ELSE r1

\* a.or(b): b is attempted, from the checkpoint, only when a returned EmptyErr;
\* a ConsumedErr of a is returned as it is
Or(r1, r2) ==
    IF r1.tag = "EmptyErr" THEN [r2 EXCEPT !.tried = r1.tried \o r2.tried] ELSE r1

(***************************************************************************)
(* Numeric literals: str::parse for u64, u128 and f64.  Magnitudes are     *)
(* kept as decimal digit sequences without leading zeros.                  *)
(***************************************************************************)
U64_MAX == <<1,8,4,4,6,7,4,4,0,7,3,7,0,9,5,5,1,6,1,5>>
U128_MAX == <<3,4,0,2,8,2,3,6,6,9,2,0,9,3,8,4,6,3,4,6,3,3,7,4,6,0,7,4,3,1,7,6,8,2,1,1,4,5,5>>
TWO_POW_64 == <<1,8,4,4,6,7,4,4,0,7,3,7,0,9,5,5,1,6,1,6>>

RECURSIVE LexLess(_, _)
\* a < b in the lexicographic order of sequences of numbers
LexLess(a, b) ==
    IF b = <<>> THEN FALSE
    ELSE IF a = <<>> THEN TRUE
    ELSE IF Head(a) # Head(b) THEN Head(a) < Head(b)
    ELSE LexLess(Tail(a), Tail(b))

RECURSIVE StripZeros(_)
StripZeros(d) == IF Len(d) > 1 /\ Head(d) = 0 THEN StripZeros(Tail(d)) ELSE d

IsDigit(c) == c \in 48..57
Digits(text) == [i \in 1..Len(text) |-> text[i] - 48]

\* <unsigned>::from_str: an optional '+', then one or more decimal digits, the
\* number at most max; <<>> stands for Err
ParseUnsigned(text, max) ==
    LET body == IF text # <<>> /\ Head(text) = 43 THEN Tail(text) ELSE text
        d == StripZeros(Digits(body))
    IN  IF body = <<>> \/ \E i \in 1..Len(body) : ~IsDigit(body[i]) THEN <<>>
        ELSE IF Len(d) < Len(max) \/ (Len(d) = Len(max) /\ ~LexLess(max, d)) THEN d
        ELSE <<>>

\* f64::from_str on the decimal texts the model uses (an optional sign, digits
\* with an optional '.', no exponent): whether it is Ok
ParseF64Ok(text) ==
    LET body == IF text # <<>> /\ Head(text) \in {43, 45} THEN Tail(text) ELSE text
    IN  /\ \E i \in 1..Len(body) : IsDigit(body[i])
        /\ \A i \in 1..Len(body) : IsDigit(body[i]) \/ body[i] = 46
        /\ Cardinality({i \in 1..Len(body) : body[i] = 46}) <= 1

\* .and_then(f): a token was matched (and consumed) and f decodes it; a decode
\* error after a consumed token is a ConsumedErr
AndThen(r, ok, v) ==
    IF IsErr(r) THEN r
    ELSE IF ok THEN [r EXCEPT !.val = v]
    ELSE ConsumedErr(DecodeError, r.off)

int_value(toks, o) ==
    LET r == Kind(toks, o, "IntValue")
        n == IF IsOk(r) THEN ParseUnsigned(r.val.value, U64_MAX) ELSE <<>>
    IN  AndThen(r, n # <<>>, [t |-> "Int", v |-> n])

bigint_value(toks, o) ==
    LET r == Kind(toks, o, "BigIntValue")
        n == IF IsOk(r) THEN ParseUnsigned(r.val.value, U128_MAX) ELSE <<>>
    IN  AndThen(r, n # <<>>, [t |-> "BigInt", v |-> n])

RECURSIVE StripTrailingZeros(_)
StripTrailingZeros(d) ==
    IF d # <<>> /\ d[Len(d)] = 0 THEN StripTrailingZeros(SubSeq(d, 1, Len(d) - 1)) ELSE d

\* the number a decimal text writes: sign, integer digits, fraction digits
F64Of(text) ==
    LET neg == text # <<>> /\ Head(text) = 45
        body == IF text # <<>> /\ Head(text) \in {43, 45} THEN Tail(text) ELSE text
        dots == {i \in 1..Len(body) : body[i] = 46}
        dot == IF dots = {} THEN Len(body) + 1 ELSE CHOOSE i \in dots : TRUE
        int == StripZeros(Digits(SubSeq(body, 1, dot - 1)))
        frac == StripTrailingZeros(Digits(SubSeq(body, dot + 1, Len(body))))
    IN  <<IF neg THEN 1 ELSE 0, IF int = <<>> THEN <<0>> ELSE int, frac>>

float_value(toks, o) ==
    LET r == Kind(toks, o, "FloatValue")
    IN  AndThen(r, IsOk(r) /\ ParseF64Ok(r.val.value),
                [t |-> "Float", v |-> IF IsOk(r) THEN F64Of(r.val.value) ELSE <<>>])

string_value(toks, o) ==
    LET r == Kind(toks, o, "StringValue")
        d == IF IsOk(r) THEN unquote_string(r.val.value) ELSE NoOut
    IN  AndThen(r, d.st = "Ok", [t |-> "String", v |-> d.val])

block_string_value(toks, o) ==
    LET r == Kind(toks, o, "BlockString")
        d == IF IsOk(r) THEN unquote_block_string(r.val.value) ELSE NoOut
    IN  AndThen(r, d.st = "Ok", [t |-> "String", v |-> d.val])

\* .map(f) on a successful result
Map(r, v) == IF IsOk(r) THEN [r EXCEPT !.val = v] ELSE r

ParseStreamKeepsToken(toks, r, before) ==
    IF r.tag = "EmptyErr"
    THEN [r EXCEPT !.off = IF before < Len(toks) THEN before + 1 ELSE before]
    ELSE r

\* parse_stream: what the production's function returns for the result r of
\* its parser.  On EmptyErr the stream is reset to `before`, the token there
\* is taken to be reported as unexpected, and the stream is reset again.
ParseStream(toks, r, before) ==
    IF r.tag = "EmptyErr" THEN [r EXCEPT !.off = before] ELSE r

plain_value(toks, o) ==
    ParseStream(toks,
      Or(Or(Or(Or(Or(Or(Or(Or(
        Alt("true", o, Map(ident(toks, o, TRUE_TEXT), [t |-> "Boolean", v |-> <<1>>])),
        Alt("false", o, Map(ident(toks, o, FALSE_TEXT), [t |-> "Boolean", v |-> <<0>>]))),
        Alt("null", o, Map(ident(toks, o, NULL_TEXT), [t |-> "Null", v |-> <<>>]))),
        Alt("enum", o, LET r == name(toks, o) IN Map(r, [t |-> "Enum", v |-> r.val]))),
        Alt("int_value", o, int_value(toks, o))),
        Alt("float_value", o, float_value(toks, o))),
        Alt("bigint_value", o, bigint_value(toks, o))),
        Alt("string_value", o, string_value(toks, o))),
        Alt("block_string_value", o, block_string_value(toks, o))),
      o)

(***************************************************************************)
(* The recursive productions.                                              *)
(***************************************************************************)
RECURSIVE BTreeInsert(_, _, _)
\* BTreeMap::insert on the map's entries in key order: the entry of an equal
\* key is replaced
BTreeInsert(m, k, v) ==
    IF m = <<>> THEN <<<<k, v>>>>
    ELSE IF Head(m)[1] = k THEN <<<<k, v>>>> \o Tail(m)
    ELSE IF LexLess(k, Head(m)[1]) THEN <<<<k, v>>>> \o m
    ELSE <<Head(m)>> \o BTreeInsert(Tail(m), k, v)

RECURSIVE CollectAppending(_, _)
CollectAppending(pairs, m) ==
    IF pairs = <<>> THEN m ELSE CollectAppending(Tail(pairs), Append(m, Head(pairs)))

RECURSIVE Collect(_, _)
\* many(..) collecting into a BTreeMap: Extend inserts the pairs in order
Collect(pairs, m) ==
    IF pairs = <<>> THEN m
    ELSE Collect(Tail(pairs), BTreeInsert(m, Head(pairs)[1], Head(pairs)[2]))

RECURSIVE value(_, _), default_value(_, _), ManyValues(_, _, _), ManyPairs(_, _, _)

\* parser(value) or parser(default_value), as the enclosing production names it
Element(toks, o, dv) == IF dv THEN default_value(toks, o) ELSE value(toks, o)

\* many's result for an item r followed by the items of rest
Cons(r, rest) ==
    IF IsErr(rest) THEN rest ELSE ConsumedOk(<<r.val>> \o rest.val, rest.off)

\* r.skip(punct(c)), for a part r that follows a consumed token
SkipPunct(toks, r, c) ==
    IF IsErr(r) THEN ConsumedErr(r.val, r.off)
    ELSE IF IsErr(punct(toks, r.off, c)) THEN Committed(toks, r.off)
    ELSE ConsumedOk(r.val, r.off + 1)

\* many(parser(value)) at o, r being the result of parser(value) there: it
\* stops, reset, at the first EmptyErr; a ConsumedErr of an element is the
\* result
ManyValuesFrom(toks, o, dv, r) ==
    IF r.tag = "EmptyErr" THEN EmptyOk(<<>>, o)
    ELSE IF r.tag = "ConsumedErr" THEN ConsumedErr(r.val, r.off)
    ELSE Cons(r, ManyValues(toks, r.off, dv))

\* many(parser(value))
ManyValues(toks, o, dv) == ManyValuesFrom(toks, o, dv, Element(toks, o, dv))

\* name().skip(punct(":")).and(v), v being the result of parser(value) at o
PairOf(toks, key, o, v) ==
    IF IsErr(v) THEN AfterConsumed(toks, v, o) ELSE ConsumedOk(<<key, v.val>>, v.off)

\* name().skip(punct(":")).and(parser(value))
Pair(toks, o, dv) ==
    LET n == name(toks, o)
        c == punct(toks, n.off, COLON)
    IN  IF IsErr(n) THEN EmptyErr(o)
        ELSE IF IsErr(c) THEN Committed(toks, n.off)
        ELSE PairOf(toks, n.val, c.off, Element(toks, c.off, dv))

\* many(name : value) at o, r being the result of the pair parser there
ManyPairsFrom(toks, o, dv, r) ==
    IF r.tag = "EmptyErr" THEN EmptyOk(<<>>, o)
    ELSE IF r.tag = "ConsumedErr" THEN r
    ELSE Cons(r, ManyPairs(toks, r.off, dv))

\* many(name().skip(punct(":")).and(parser(value)))
ManyPairs(toks, o, dv) == ManyPairsFrom(toks, o, dv, Pair(toks, o, dv))

\* .map(Value::List)
MapList(r) == IF IsOk(r) THEN [r EXCEPT !.val = [t |-> "List", v |-> r.val]] ELSE r

\* .map(Value::Object) of the pairs collected into a BTreeMap
MapObject(r) ==
    IF IsOk(r) THEN [r EXCEPT !.val = [t |-> "Object", v |-> Collect(r.val, <<>>)]] ELSE r

\* punct("[").with(many(parser(value))).skip(punct("]")).map(Value::List)
ListAlt(toks, o, dv) ==
    IF IsErr(punct(toks, o, LBRACKET)) THEN EmptyErr(o)
    ELSE MapList(SkipPunct(toks, ManyValues(toks, o + 1, dv), RBRACKET))

\* punct("{").with(many(name : value)).skip(punct("}")).map(Value::Object)
ObjectAlt(toks, o, dv) ==
    IF IsErr(punct(toks, o, LBRACE)) THEN EmptyErr(o)
    ELSE MapObject(SkipPunct(toks, ManyPairs(toks, o + 1, dv), RBRACE))

\* punct("$").with(name()).map(Value::Variable)
VariableAlt(toks, o) ==
    LET sigil == punct(toks, o, DOLLAR)
    IN  IF IsErr(sigil) THEN EmptyErr(o)
        ELSE LET n == name(toks, sigil.off)
             IN  IF IsErr(n) THEN Committed(toks, sigil.off)
                 ELSE ConsumedOk([t |-> "Variable", v |-> n.val], n.off)

value(toks, o) ==
    ParseStream(toks,
      Or(Or(Or(plain_value(toks, o),
               Alt("variable", o, VariableAlt(toks, o))),
            Alt("list", o, ListAlt(toks, o, FALSE))),
         Alt("object", o, ObjectAlt(toks, o, FALSE))),
      o)

DefaultValueWithVariable(toks, o) == value(toks, o)

default_value(toks, o) ==
    ParseStream(toks,
      Or(Or(plain_value(toks, o),
            Alt("list", o, ListAlt(toks, o, TRUE))),
         Alt("object", o, ObjectAlt(toks, o, TRUE))),
      o)

RECURSIVE parse_type(_, _)
\* name().map(NamedType).or(punct("[").with(parser(parse_type)).skip(punct("]")))
TypeBase(toks, o) ==
    LET n == name(toks, o)
        named == Alt("named", o, Map(n, [t |-> "NamedType", v |-> n.val]))
        open == punct(toks, o, LBRACKET)
        inner == parse_type(toks, open.off)
        close == punct(toks, inner.off, RBRACKET)
        list == IF IsErr(open) THEN EmptyErr(o)
                ELSE IF IsErr(inner) THEN AfterConsumed(toks, inner, open.off)
                ELSE IF IsErr(close) THEN Committed(toks, inner.off)
                ELSE ConsumedOk([t |-> "ListType", v |-> inner.val], close.off)
    IN  Or(named, Alt("list", o, list))

RECURSIVE OptionalBangRepeated(_, _)
OptionalBangRepeated(toks, o) ==
    IF IsOk(punct(toks, o, BANG))
    THEN ConsumedOk(TRUE, OptionalBangRepeated(toks, o + 1).off)
    ELSE EmptyOk(FALSE, o)

\* optional(punct("!")).map(|v| v.is_some())
OptionalBang(toks, o) ==
    IF IsOk(punct(toks, o, BANG)) THEN ConsumedOk(TRUE, o + 1) ELSE EmptyOk(FALSE, o)

\* .and(optional(punct("!")).map(..)).map(|(typ, strict)| ..)
WithSuffix(base, strict) ==
    IF IsErr(base) THEN base
    ELSE [tag |-> "ConsumedOk",
          val |-> IF strict.val THEN [t |-> "NonNullType", v |-> base.val] ELSE base.val,
          off |-> strict.off, tried |-> base.tried]

parse_type(toks, o) ==
    LET base == TypeBase(toks, o)
    IN  ParseStream(toks, WithSuffix(base, OptionalBang(toks, base.off)), o)

\* many1(name : value).skip(punct(")")) at o, after `(`; first is the result
\* of the first pair
ArgumentsAfterFirst(toks, o, first) ==
    IF IsErr(first) THEN AfterConsumed(toks, first, o)
    ELSE SkipPunct(toks, Cons(first, ManyPairs(toks, first.off, FALSE)), RPAREN)

ArgumentsAllowingNone(toks, o) ==
    ParseStream(toks,
      IF IsErr(punct(toks, o, LPAREN)) THEN EmptyOk(<<>>, o)
      ELSE SkipPunct(toks, ManyPairs(toks, o + 1, FALSE), RPAREN),
      o)

\* optional(punct("(").with(many1(name : value)).skip(punct(")")))
\*     .map(|opt| opt.unwrap_or_else(Vec::new))
arguments(toks, o) ==
    ParseStream(toks,
      IF IsErr(punct(toks, o, LPAREN)) THEN EmptyOk(<<>>, o)
      ELSE ArgumentsAfterFirst(toks, o + 1, Pair(toks, o + 1, FALSE)),
      o)

\* .map(|((position, name), arguments)| Directive { .. })
DirectiveOf(o, n, args) ==
    IF IsErr(args) THEN ConsumedErr(args.val, args.off)
    ELSE ConsumedOk([position |-> o, name |-> n, arguments |-> args.val], args.off)

\* position().skip(punct("@")).and(name()).and(parser(arguments)).map(Directive)
Directive(toks, o) ==
    LET at == punct(toks, o, AT)
        n == name(toks, at.off)
    IN  IF IsErr(at) THEN EmptyErr(o)
        ELSE IF IsErr(n) THEN Committed(toks, at.off)
        ELSE DirectiveOf(o, n.val, arguments(toks, n.off))

RECURSIVE ManyDirectives(_, _)
\* many(directive) at o, r being the result of the directive parser there
ManyDirectivesFrom(toks, o, r) ==
    IF r.tag = "EmptyErr" THEN EmptyOk(<<>>, o)
    ELSE IF r.tag = "ConsumedErr" THEN r
    ELSE Cons(r, ManyDirectives(toks, r.off))

ManyDirectives(toks, o) == ManyDirectivesFrom(toks, o, Directive(toks, o))

\* many(directive).parse_stream(input)
directives(toks, o) == ParseStream(toks, ManyDirectives(toks, o), o)

(***************************************************************************)
(* The entry productions as operations on the token stream.  A caller           *)
(* calls them one after another on the same stream and stops at the first  *)
(* failure.                                                                *)
(***************************************************************************)
Failed == last.tag \in {"ConsumedErr", "EmptyErr"}

\* the call's result is kept and the stream is left where the parser left it
Returned(entry, r) ==
    /\ last' = [entry |-> entry, before |-> off, tag |-> r.tag, val |-> r.val,
                tried |-> r.tried]
    /\ off' = r.off

Call_value ==
    /\ ~Failed
    /\ Returned("value", value(tokens, off))
    /\ UNCHANGED <<src, out, tokens>>

Call_default_value ==
    /\ ~Failed
    /\ Returned("default_value", default_value(tokens, off))
    /\ UNCHANGED <<src, out, tokens>>

Call_parse_type ==
    /\ ~Failed
    /\ Returned("parse_type", parse_type(tokens, off))
    /\ UNCHANGED <<src, out, tokens>>

Call_arguments ==
    /\ ~Failed
    /\ Returned("arguments", arguments(tokens, off))
    /\ UNCHANGED <<src, out, tokens>>

Call_directives ==
    /\ ~Failed
    /\ Returned("directives", directives(tokens, off))
    /\ UNCHANGED <<src, out, tokens>>

NextParse ==
    \/ Call_value
    \/ Call_default_value
    \/ Call_parse_type
    \/ Call_arguments
    \/ Call_directives

TEXT_A == <<97>>
TEXT_B == <<98>>
TEXT_AB == <<97, 98>>
TEXT_X == <<120>>
TEXT_1 == <<49>>
TEXT_2 == <<50>>
TEXT_3 == <<51>>
TEXT_STRING == <<83, 116, 114, 105, 110, 103>>
TWO_POW_64_TEXT == [i \in 1..Len(TWO_POW_64) |-> TWO_POW_64[i] + 48]

ValueAlphabet ==
    {Punct(DOLLAR), Punct(LBRACKET), Punct(RBRACKET), Punct(LBRACE), Punct(RBRACE),
     Punct(COLON), NameTok(TEXT_A), IntTok(TEXT_1)}

\* literal tokens, some of which match their kind and fail to decode: an
\* integer of 2^64, a negative integer, a string with an unrecognised escape
LiteralAlphabet ==
    {NameTok(TEXT_A), NameTok(TRUE_TEXT), NameTok(FALSE_TEXT), NameTok(NULL_TEXT),
     IntTok(TEXT_1), IntTok(TWO_POW_64_TEXT), IntTok(<<45, 49>>),
     FloatTok(<<49, 46, 53>>), BigIntTok(TWO_POW_64_TEXT),
     StringTok(<<QUOTE, 120, QUOTE>>), StringTok(<<QUOTE, BACKSLASH, 120, QUOTE>>),
     BlockTok(TRIPLE \o <<NEWLINE, SPACE, 120>> \o TRIPLE),
     Punct(DOLLAR), Punct(LBRACKET), Punct(RBRACKET)}

ValueExamples ==
    {<<Punct(LBRACE), NameTok(TEXT_A), Punct(COLON), Punct(DOLLAR), NameTok(TEXT_A), Punct(RBRACE)>>,
     <<Punct(LBRACKET), Punct(LBRACKET), Punct(DOLLAR), NameTok(TEXT_A), Punct(RBRACKET),
       Punct(RBRACKET)>>,
     <<Punct(LBRACE), NameTok(TEXT_A), Punct(COLON), Punct(LBRACKET), Punct(DOLLAR), NameTok(TEXT_A),
       Punct(RBRACKET), Punct(RBRACE)>>}

EntryAlphabet ==
    {Punct(AT), Punct(LPAREN), Punct(RPAREN), Punct(LBRACKET), Punct(COLON),
     NameTok(TEXT_A), IntTok(TEXT_1)}

EntryExamples ==
    {<<Punct(AT), NameTok(TEXT_A), Punct(LPAREN), NameTok(TEXT_A), Punct(COLON), IntTok(TEXT_1)>>,
     <<Punct(LBRACE), NameTok(TEXT_A), Punct(COLON), IntTok(TEXT_1)>>,
     <<Punct(LBRACKET), NameTok(TEXT_A), Punct(BANG)>>,
     <<Punct(LBRACKET), IntTok(TEXT_1), IntTok(TWO_POW_64_TEXT)>>,
     <<Punct(LPAREN), NameTok(TEXT_A), Punct(COLON), IntTok(TEXT_1), NameTok(TEXT_A), Punct(RPAREN)>>}

TypeAlphabet == {NameTok(TEXT_STRING), Punct(LBRACKET), Punct(RBRACKET), Punct(BANG)}

\* name : value pairs between an opening and a closing token
PairKinds == {<<NameTok(k), Punct(COLON), IntTok(v)>> : k \in {TEXT_A, TEXT_B, TEXT_AB}, v \in {TEXT_1, TEXT_2}}
Openers == {<<>>, <<Punct(LPAREN)>>, <<Punct(LBRACE)>>}
Closers == {<<>>, <<Punct(RPAREN)>>, <<Punct(RBRACE)>>}

\* (a: 1, b: [1, 2, 3], c: {x: true})
SpecArguments ==
    <<Punct(LPAREN), NameTok(TEXT_A), Punct(COLON), IntTok(TEXT_1),
      NameTok(TEXT_B), Punct(COLON), Punct(LBRACKET), IntTok(TEXT_1), IntTok(TEXT_2), IntTok(TEXT_3),
      Punct(RBRACKET),
      NameTok(<<99>>), Punct(COLON), Punct(LBRACE), NameTok(TEXT_X), Punct(COLON),
      NameTok(TRUE_TEXT), Punct(RBRACE), Punct(RPAREN)>>

PairInputs ==
    {o \o Concat(ps) \o c : o \in Openers, ps \in SeqsUpTo(PairKinds, MaxPairs), c \in Closers}
    \cup {SpecArguments}

InitTokens(inputs) ==
    /\ tokens \in inputs
    /\ off = 0
    /\ last = NoCall
    /\ src = <<>> /\ out = NoOut

InitValue ==
    InitTokens(SeqsUpTo(ValueAlphabet, MaxTokens) \cup SeqsUpTo(LiteralAlphabet, MaxShort)
               \cup ValueExamples)
InitEntries == InitTokens(SeqsUpTo(EntryAlphabet, MaxTokens) \cup EntryExamples)
InitType == InitTokens(SeqsUpTo(TypeAlphabet, MaxTypeTokens))
InitPairs == InitTokens(PairInputs)

SpecValue == InitValue /\ [][NextParse]_vars
SpecEntries == InitEntries /\ [][NextParse]_vars
SpecType == InitType /\ [][NextParse]_vars
SpecPairs == InitPairs /\ [][NextParse]_vars

(***************************************************************************)
(* Claims about unquote_string.                                            *)
(***************************************************************************)
StringInterior == SubSeq(src, 2, Len(src) - 1)

\* the character each recognised simple escape denotes
DenotedBy(e) ==
    IF e \in {QUOTE, BACKSLASH, SLASH} THEN e
    ELSE IF e = 98 THEN 8
    ELSE IF e = 102 THEN 12
    ELSE IF e = 110 THEN 10
    ELSE IF e = 114 THEN 13
    ELSE IF e = 116 THEN 9
    ELSE -1

RECURSIVE OnlySimple(_)
\* chars is made of non-backslash characters and recognised simple escapes
OnlySimple(chars) ==
    IF chars = <<>> THEN TRUE
    ELSE IF Head(chars) # BACKSLASH THEN OnlySimple(Tail(chars))
    ELSE Len(chars) >= 2 /\ DenotedBy(chars[2]) >= 0
         /\ OnlySimple(SubSeq(chars, 3, Len(chars)))

RECURSIVE SimpleDecoded(_)
SimpleDecoded(chars) ==
    IF chars = <<>> THEN <<>>
    ELSE IF Head(chars) # BACKSLASH THEN <<Head(chars)>> \o SimpleDecoded(Tail(chars))
    ELSE <<DenotedBy(chars[2])>> \o SimpleDecoded(SubSeq(chars, 3, Len(chars)))

\* C4: unquote_string strips the quotes, copies every non-backslash character
\* and replaces each simple escape by the character it denotes (\b by U+0008).
C4_SimpleEscapesDecoded ==
    (out # NoOut /\ OnlySimple(StringInterior))
        => out = Ok(SimpleDecoded(StringInterior))

C4_Witness ==
    /\ out.st = "Ok"
    /\ OnlySimple(StringInterior)
    /\ \E i \in 1..Len(StringInterior) : StringInterior[i] = BACKSLASH

IsHex(c) == c \in 48..57 \/ c \in 65..70 \/ c \in 97..102

RECURSIVE HexValue(_)
\* the number four hexadecimal digits write
HexValue(ds) ==
    IF ds = <<>> THEN 0
    ELSE HexValue(SubSeq(ds, 1, Len(ds) - 1)) * 16
         + (LET c == ds[Len(ds)]
            IN  IF c \in 48..57 THEN c - 48 ELSE IF c \in 65..70 THEN c - 55 ELSE c - 87)

\* a \u escape that decodes: four characters, all hexadecimal digits, writing
\* a Unicode scalar value
GoodUnicode(four) ==
    /\ Len(four) = 4
    /\ \A i \in 1..4 : IsHex(four[i])
    /\ HexValue(four) <= 1114111 /\ ~(HexValue(four) \in 55296..57343)

RECURSIVE HasBadEscape(_)
\* some backslash of chars starts no recognised escape
HasBadEscape(chars) ==
    IF chars = <<>> THEN FALSE
    ELSE IF Head(chars) # BACKSLASH THEN HasBadEscape(Tail(chars))
    ELSE IF Len(chars) < 2 THEN TRUE
    ELSE IF DenotedBy(chars[2]) >= 0 THEN HasBadEscape(SubSeq(chars, 3, Len(chars)))
    ELSE IF chars[2] = 117
         THEN IF Len(chars) >= 6 /\ GoodUnicode(SubSeq(chars, 3, 6))
              THEN HasBadEscape(SubSeq(chars, 7, Len(chars)))
              ELSE TRUE
    ELSE TRUE

RECURSIVE OnlyUnicode(_)
\* chars is made of non-backslash characters and \u escapes that decode
OnlyUnicode(chars) ==
    IF chars = <<>> THEN TRUE
    ELSE IF Head(chars) # BACKSLASH THEN OnlyUnicode(Tail(chars))
    ELSE Len(chars) >= 6 /\ chars[2] = 117 /\ GoodUnicode(SubSeq(chars, 3, 6))
         /\ OnlyUnicode(SubSeq(chars, 7, Len(chars)))

RECURSIVE UnicodeDecoded(_)
UnicodeDecoded(chars) ==
    IF chars = <<>> THEN <<>>
    ELSE IF Head(chars) # BACKSLASH THEN <<Head(chars)>> \o UnicodeDecoded(Tail(chars))
    ELSE <<HexValue(SubSeq(chars, 3, 6))>> \o UnicodeDecoded(SubSeq(chars, 7, Len(chars)))

\* C5: a \u escape decodes to the character with that code point exactly when
\* its four characters are all hexadecimal digits writing a Unicode scalar
\* value; a short, non-hexadecimal (a leading '+' included) or non-scalar \u
\* escape, and any unrecognised escape, returns a decode error with a message.
C5_UnicodeEscapes ==
    out # NoOut =>
        /\ (out.st = "Err" /\ out.msg # "") <=> HasBadEscape(StringInterior)
        /\ OnlyUnicode(StringInterior) => out = Ok(UnicodeDecoded(StringInterior))

C5_Witness ==
    /\ out.st = "Ok"
    /\ StringInterior = <<BACKSLASH, 117, 43, 48, 52, 49>>
(***************************************************************************)
(* Claims about unquote_block_string.                                      *)
(***************************************************************************)
Interior == SubSeq(src, 4, Len(src) - 3)

IsBlank(line) == \A i \in 1..Len(line) : IsWhitespace(line[i])

RECURSIVE LeadingWs(_)
\* the number of leading whitespace characters of a line
LeadingWs(line) ==
    IF line # <<>> /\ IsWhitespace(Head(line)) THEN 1 + LeadingWs(Tail(line)) ELSE 0

LaterLines(interior) ==
    LET ls == Lines(interior) IN IF ls = <<>> THEN <<>> ELSE Tail(ls)

\* the first line as emitted: trimmed, and only if that leaves something
FirstEmitted(interior) ==
    LET ls == Lines(interior)
    IN  IF ls = <<>> \/ IsBlank(Head(ls)) THEN <<>> ELSE Append(Trim(Head(ls)), NEWLINE)

RECURSIVE StripBlankLines(_)
\* text made of newline-terminated lines, without its trailing blank lines
StripBlankLines(text) ==
    IF text = <<>> \/ text[Len(text)] # NEWLINE THEN text
    ELSE LET body == SubSeq(text, 1, Len(text) - 1)
             starts == {i \in 1..Len(body) : body[i] = NEWLINE}
             from == IF starts = {} THEN 0 ELSE CHOOSE i \in starts : \A j \in starts : j <= i
         IN  IF IsBlank(SubSeq(body, from + 1, Len(body)))
             THEN StripBlankLines(SubSeq(text, 1, from))
             ELSE text

\* common indentation counted in characters
CharIndent(interior) ==
    LET ls == LaterLines(interior)
        ws == {LeadingWs(ls[i]) : i \in {j \in 1..Len(ls) : ~IsBlank(ls[j])}}
    IN  IF ws = {} THEN 0 ELSE CHOOSE w \in ws : \A v \in ws : w <= v

RECURSIVE Unescaped(_)
\* every \""" replaced by """
Unescaped(text) ==
    IF Len(text) < 4 THEN text
    ELSE IF SubSeq(text, 1, 4) = <<BACKSLASH, QUOTE, QUOTE, QUOTE>>
         THEN <<QUOTE, QUOTE, QUOTE>> \o Unescaped(SubSeq(text, 5, Len(text)))
         ELSE <<Head(text)>> \o Unescaped(Tail(text))

RECURSIVE CharDedented(_, _)
\* every line without its first n characters and with \""" unescaped, each
\* followed by a newline
CharDedented(ls, n) ==
    IF ls = <<>> THEN <<>>
    ELSE Unescaped(SubSeq(Head(ls), n + 1, Len(Head(ls)))) \o <<NEWLINE>>
         \o CharDedented(Tail(ls), n)

\* C6 as stated: the common indentation is the minimum leading-whitespace width
\* of the non-blank lines after the first, the trimmed first line is emitted if
\* non-empty, every later line is emitted with exactly that many characters
\* removed and a newline; the Hello/World interior gives "Hello,\n  World!\n".
\* (The \""" of a later line is taken as unescaped to """, and trailing blank
\* lines are left out of the comparison.)
C6_DedentByCharacters ==
    out # NoOut =>
        /\ out.st = "Ok"
        /\ StripBlankLines(out.val)
             = StripBlankLines(FirstEmitted(Interior)
                               \o CharDedented(LaterLines(Interior), CharIndent(Interior)))
        /\ Interior = HelloInterior => out.val = HelloResult

\* common indentation counted in UTF-8 bytes
ByteIndent(interior) ==
    LET ls == LaterLines(interior)
        ws == {ByteLen(ls[i]) - ByteLen(TrimStart(ls[i])) : i \in {j \in 1..Len(ls) : ~IsBlank(ls[j])}}
    IN  IF ws = {} THEN 0 ELSE CHOOSE w \in ws : \A v \in ws : w <= v

\* byte offset n falls inside a multi-byte character of the line
SplitsCharacter(line, n) ==
    /\ ByteLen(line) > n
    /\ \A k \in 0..Len(line) : ByteLen(SubSeq(line, 1, k)) # n

\* the line without its first n bytes (empty when it has no more than n)
WithoutBytes(line, n) ==
    IF ByteLen(line) <= n THEN <<>>
    ELSE LET k == CHOOSE j \in 0..Len(line) : ByteLen(SubSeq(line, 1, j)) = n
         IN  SubSeq(line, k + 1, Len(line))

RECURSIVE ByteDedented(_, _)
ByteDedented(ls, n) ==
    IF ls = <<>> THEN <<>>
    ELSE Unescaped(WithoutBytes(Head(ls), n)) \o <<NEWLINE>> \o ByteDedented(Tail(ls), n)

\* What the code does where C6 says characters: the widths are UTF-8 byte
\* counts, a later line is emitted without its first `indent` bytes and with
\* every \""" unescaped to """, and the call panics when that byte offset
\* splits a character of a later line.
C6_DedentByBytes ==
    out # NoOut =>
        LET ls == LaterLines(Interior)
            n == ByteIndent(Interior)
            splits == \E i \in 1..Len(ls) : SplitsCharacter(ls[i], n)
        IN  /\ out.st = "Panic" <=> splits
            /\ out.st = "Ok" <=> ~splits
            /\ ~splits =>
                 StripBlankLines(out.val)
                   = StripBlankLines(FirstEmitted(Interior) \o ByteDedented(ls, n))
            /\ Interior = HelloInterior => out.val = HelloResult

C6_Witness ==
    /\ out.st = "Ok"
    /\ ByteIndent(Interior) > 0
    /\ \E i \in 1..(Len(out.val) - 2) : SubSeq(out.val, i, i + 2) = <<QUOTE, QUOTE, QUOTE>>
    /\ \E i \in 1..Len(Interior) : Interior[i] = NBSP

\* C7: the decoded block string never ends with a blank-only line.
C7_NoTrailingBlankLine ==
    out.st = "Ok" => StripBlankLines(out.val) = out.val

C7_Witness ==
    /\ out.st = "Ok"
    /\ Len(LaterLines(Interior)) >= 2
    /\ IsBlank(LaterLines(Interior)[Len(LaterLines(Interior))])
    /\ out.val # <<>>

(***************************************************************************)
(* Claims about the grammar productions.                                   *)
(***************************************************************************)
Succeeded == last.tag \in {"ConsumedOk", "EmptyOk"}

\* the tokens the last call consumed
Consumed == SubSeq(tokens, last.before + 1, off)

\* the token at 0-based offset o is the punctuator c
IsPunctAt(o, c) == o < Len(tokens) /\ tokens[o + 1] = [kind |-> "Punctuator", value |-> <<c>>]
IsNameAt(o) == o < Len(tokens) /\ tokens[o + 1].kind = "Name"

RECURSIVE ContainsVariable(_)
\* a Variable occurs in the value, at the top, in a list or in an object
ContainsVariable(v) ==
    \/ v.t = "Variable"
    \/ v.t = "List" /\ \E i \in 1..Len(v.v) : ContainsVariable(v.v[i])
    \/ v.t = "Object" /\ \E i \in 1..Len(v.v) : ContainsVariable(v.v[i][2])

\* C1: default_value never returns a Value containing a Variable, at any
\* depth: it consumes no `$`, and fails with an unexpected-token failure on a
\* `$` name pair, on which value returns Variable(name).
C1_DefaultValueRejectsVariables ==
    /\ (last.entry = "default_value" /\ Succeeded) =>
          /\ ~ContainsVariable(last.val)
          /\ \A i \in 1..Len(Consumed) : Consumed[i] # [kind |-> "Punctuator", value |-> <<36>>]
    /\ (last.entry = "default_value" /\ IsPunctAt(last.before, 36) /\ IsNameAt(last.before + 1)) =>
          /\ ~Succeeded
          /\ last.val.t = "Unexpected"
    /\ (last.entry = "value" /\ IsPunctAt(last.before, 36) /\ IsNameAt(last.before + 1)) =>
          /\ Succeeded
          /\ last.val = [t |-> "Variable", v |-> tokens[last.before + 2].value]
          /\ off = last.before + 2

C1_Witness ==
    /\ last.entry = "default_value"
    /\ ~Succeeded /\ last.val.t = "Unexpected"
    /\ last.before = 0 /\ Len(tokens) = 8
    /\ IsPunctAt(4, 36)

\* C2 as stated: whenever a call of one of the five productions fails, the
\* position after the call is the position before it, also when tokens of the
\* production were matched before the failure.
C2_FailureRestoresPosition ==
    last.tag \in {"ConsumedErr", "EmptyErr"} => off = last.before

\* the token can begin the production
Begins(entry, tok) ==
    IF entry \in {"value", "default_value"}
    THEN \/ tok.kind \in {"Name", "IntValue", "FloatValue", "BigIntValue", "StringValue",
                          "BlockString"}
         \/ tok.kind = "Punctuator" /\ tok.value \in {<<91>>, <<123>>}
         \/ entry = "value" /\ tok.kind = "Punctuator" /\ tok.value = <<36>>
    ELSE IF entry = "parse_type"
    THEN tok.kind = "Name" \/ (tok.kind = "Punctuator" /\ tok.value = <<91>>)
    ELSE IF entry = "arguments" THEN tok.kind = "Punctuator" /\ tok.value = <<40>>
    ELSE tok.kind = "Punctuator" /\ tok.value = <<64>>

MatchedFirstToken ==
    last.before < Len(tokens) /\ Begins(last.entry, tokens[last.before + 1])

\* C2 amended: a failed call leaves the position unchanged when it matched no
\* token (the next token cannot begin the production); a call that fails
\* after matching tokens leaves the position beyond where it was.
C2_FailurePosition ==
    last.tag \in {"ConsumedErr", "EmptyErr"} =>
        /\ ~MatchedFirstToken => off = last.before
        /\ MatchedFirstToken => off > last.before /\ off <= Len(tokens)

C2_Witness ==
    /\ last.entry = "arguments"
    /\ last.tag = "ConsumedErr"
    /\ last.before = 0 /\ off = 4 /\ Len(tokens) = 4
    /\ tokens[4].kind = "IntValue"

RECURSIVE NestedNonNull(_)
\* some NonNullType of the type has a NonNullType as its direct child
NestedNonNull(ty) ==
    \/ ty.t = "NonNullType" /\ ty.v.t = "NonNullType"
    \/ ty.t \in {"NonNullType", "ListType"} /\ NestedNonNull(ty.v)

RECURSIVE TypeWritten(_)
\* the type a token sequence writes: a name, [ type ], or either followed by !
TypeWritten(ts) ==
    IF ts = <<>> THEN [t |-> "None", v |-> <<>>]
    ELSE IF ts[Len(ts)] = [kind |-> "Punctuator", value |-> <<33>>]
         THEN [t |-> "NonNullType", v |-> TypeWritten(SubSeq(ts, 1, Len(ts) - 1))]
    ELSE IF Len(ts) = 1 /\ ts[1].kind = "Name"
         THEN [t |-> "NamedType", v |-> ts[1].value]
    ELSE IF /\ ts[1] = [kind |-> "Punctuator", value |-> <<91>>]
            /\ ts[Len(ts)] = [kind |-> "Punctuator", value |-> <<93>>]
         THEN [t |-> "ListType", v |-> TypeWritten(SubSeq(ts, 2, Len(ts) - 1))]
    ELSE [t |-> "None", v |-> <<>>]

StringBangListBang ==
    <<[kind |-> "Name", value |-> <<83, 116, 114, 105, 110, 103>>],
      [kind |-> "Punctuator", value |-> <<33>>]>>

\* C3: parse_type parses a name or [ type ] and takes at most one `!` after
\* it: the result is the type the consumed tokens write, no NonNullType has a
\* NonNullType child, a second `!` stays unconsumed, and `[String!]!` gives
\* NonNullType(ListType(NonNullType(NamedType(String)))).
C3_SingleBang ==
    (last.entry = "parse_type" /\ Succeeded) =>
        /\ last.val = TypeWritten(Consumed)
        /\ ~NestedNonNull(last.val)
        /\ \A i \in 1..(Len(Consumed) - 1) :
              ~(Consumed[i].value = <<33>> /\ Consumed[i + 1].value = <<33>>)
        /\ Consumed = <<[kind |-> "Punctuator", value |-> <<91>>]>> \o StringBangListBang
                      \o <<[kind |-> "Punctuator", value |-> <<93>>],
                           [kind |-> "Punctuator", value |-> <<33>>]>>
             => last.val =
                  [t |-> "NonNullType", v |->
                    [t |-> "ListType", v |->
                      [t |-> "NonNullType", v |->
                        [t |-> "NamedType", v |-> <<83, 116, 114, 105, 110, 103>>]]]]

C3_Witness ==
    /\ last.entry = "parse_type" /\ Succeeded
    /\ last.val.t = "NonNullType"
    /\ IsPunctAt(off, 33)

\* the tokens are name : int pairs, three tokens each
RECURSIVE FlatPairs(_)
FlatPairs(ts) ==
    \/ ts = <<>>
    \/ /\ Len(ts) >= 3
       /\ ts[1].kind = "Name"
       /\ ts[2] = [kind |-> "Punctuator", value |-> <<58>>]
       /\ ts[3].kind = "IntValue" /\ Len(ts[3].value) = 1
       /\ FlatPairs(SubSeq(ts, 4, Len(ts)))

\* the pairs such tokens write, in source order
WrittenPairs(ts) ==
    [i \in 1..(Len(ts) \div 3) |->
        <<ts[3 * i - 2].value, [t |-> "Int", v |-> <<ts[3 * i].value[1] - 48>>]>>]

\* opener, name : int pairs, closer
Bracketed(ts, open, close) ==
    /\ Len(ts) >= 2
    /\ ts[1] = [kind |-> "Punctuator", value |-> <<open>>]
    /\ ts[Len(ts)] = [kind |-> "Punctuator", value |-> <<close>>]
    /\ FlatPairs(SubSeq(ts, 2, Len(ts) - 1))

Remaining == SubSeq(tokens, last.before + 1, Len(tokens))

RECURSIVE Before(_, _)
\* a comes before b lexicographically
Before(a, b) ==
    IF b = <<>> THEN FALSE
    ELSE IF a = <<>> THEN TRUE
    ELSE IF a[1] # b[1] THEN a[1] < b[1]
    ELSE Before(Tail(a), Tail(b))

\* C8: an object literal gives an Object with each key once, in lexicographic
\* order whatever the source order, each key holding the value of its last
\* occurrence; a repeated key is no failure.
C8_ObjectKeys ==
    last.entry \in {"value", "default_value"} =>
        /\ (Succeeded /\ last.val.t = "Object") =>
              \A i \in 1..(Len(last.val.v) - 1) : Before(last.val.v[i][1], last.val.v[i + 1][1])
        /\ (Succeeded /\ Bracketed(Consumed, 123, 125)) =>
              LET written == WrittenPairs(SubSeq(Consumed, 2, Len(Consumed) - 1))
                  entries == last.val.v
              IN  /\ last.val.t = "Object"
                  /\ {entries[i][1] : i \in 1..Len(entries)}
                       = {written[i][1] : i \in 1..Len(written)}
                  /\ \A i \in 1..Len(entries) :
                        \E j \in 1..Len(written) :
                           /\ written[j] = entries[i]
                           /\ \A k \in (j + 1)..Len(written) : written[k][1] # entries[i][1]
        /\ Bracketed(Remaining, 123, 125) => Succeeded /\ off = Len(tokens)

C8_Witness ==
    /\ last.entry = "value" /\ Succeeded /\ last.val.t = "Object"
    /\ Len(Consumed) = 11
    /\ Len(last.val.v) = 2
    /\ Consumed[2].value = <<98>> /\ Consumed[5].value = <<97>> /\ Consumed[8].value = <<98>>
    /\ Consumed[4].value # Consumed[10].value

\* the arguments written by (a: 1, b: [1, 2, 3], c: {x: true})
SpecArgumentsValue ==
    << <<(<<97>>), [t |-> "Int", v |-> <<1>>]>>,
       <<(<<98>>), [t |-> "List", v |-> <<[t |-> "Int", v |-> <<1>>],
                                         [t |-> "Int", v |-> <<2>>],
                                         [t |-> "Int", v |-> <<3>>]>>]>>,
       <<(<<99>>), [t |-> "Object", v |-> << <<(<<120>>), [t |-> "Boolean", v |-> <<1>>]>> >>]>> >>

\* C9: arguments returns the empty sequence, consuming nothing, when the next
\* token is not `(`; after `(` it needs at least one name : value pair and a
\* `)` (so `(` `)` fails) and returns the pairs in source order, every pair
\* kept, repeated names included.
C9_Arguments ==
    last.entry = "arguments" =>
        /\ ~IsPunctAt(last.before, 40) =>
              Succeeded /\ last.val = <<>> /\ off = last.before
        /\ (IsPunctAt(last.before, 40) /\ Succeeded) =>
              /\ Len(last.val) >= 1
              /\ Consumed[Len(Consumed)] = [kind |-> "Punctuator", value |-> <<41>>]
              /\ FlatPairs(SubSeq(Consumed, 2, Len(Consumed) - 1)) =>
                    last.val = WrittenPairs(SubSeq(Consumed, 2, Len(Consumed) - 1))
        /\ (IsPunctAt(last.before, 40) /\ IsPunctAt(last.before + 1, 41)) => ~Succeeded
        /\ (Bracketed(Remaining, 40, 41) /\ Len(Remaining) > 2) =>
              Succeeded /\ off = Len(tokens)
        /\ (last.before = 0 /\ tokens = SpecArguments) =>
              Succeeded /\ last.val = SpecArgumentsValue

C9_Witness ==
    /\ last.entry = "arguments" /\ Succeeded
    /\ Len(last.val) = 3
    /\ last.val[1][1] = last.val[3][1]
    /\ last.val[1][2] # last.val[3][2]

\* the alternatives of the production's ordered choice, in order
Alternatives(entry) ==
    <<"true", "false", "null", "enum", "int_value", "float_value", "bigint_value",
      "string_value", "block_string_value">>
    \o (IF entry = "value" THEN <<"variable">> ELSE <<>>)
    \o <<"list", "object">>

TriedNames == [i \in 1..Len(last.tried) |-> last.tried[i].alt]

\* C10 as stated: a failure reaches the caller only after every alternative
\* was attempted, each from the starting position.
C10_EveryAlternativeTried ==
    (last.entry \in {"value", "default_value"} /\ last.tag \in {"ConsumedErr", "EmptyErr"}) =>
        /\ TriedNames = Alternatives(last.entry)
        /\ \A i \in 1..Len(last.tried) : last.tried[i].at = last.before

\* the alternative that matches a token of this kind
AlternativeFor(tok) ==
    IF tok.kind = "IntValue" THEN "int_value"
    ELSE IF tok.kind = "FloatValue" THEN "float_value"
    ELSE IF tok.kind = "BigIntValue" THEN "bigint_value"
    ELSE IF tok.kind = "StringValue" THEN "string_value"
    ELSE IF tok.kind = "BlockString" THEN "block_string_value"
    ELSE IF tok.value = <<36>> THEN "variable"
    ELSE IF tok.value = <<91>> THEN "list"
    ELSE IF tok.value = <<123>> THEN "object"
    ELSE "enum"

\* C10 amended: alternatives are attempted in order, each from the starting
\* position, while they fail without consuming a token; when none matches the
\* next token all were attempted.  An alternative that matched the next token
\* and then failed (a literal that does not decode, a list, object or
\* variable that fails further on) ends the choice: it is the last one
\* attempted and its failure is what the caller sees.
C10_ChoiceStopsAtCommittedFailure ==
    (last.entry \in {"value", "default_value"} /\ last.tag \in {"ConsumedErr", "EmptyErr"}) =>
        /\ \A i \in 1..Len(last.tried) : last.tried[i].at = last.before
        /\ IsPrefix(TriedNames, Alternatives(last.entry))
        /\ ~MatchedFirstToken =>
              TriedNames = Alternatives(last.entry) /\ off = last.before
        /\ MatchedFirstToken =>
              /\ TriedNames[Len(TriedNames)] = AlternativeFor(tokens[last.before + 1])
              /\ last.tag = "ConsumedErr"
              /\ off > last.before

C10_Witness ==
    /\ last.entry = "value"
    /\ last.tag = "ConsumedErr" /\ last.val.t = "Decode"
    /\ tokens[last.before + 1].kind = "IntValue"
    /\ Len(last.tried) = 5

====
